---------------------------- MODULE Spec2Model ----------------------------
(***************************************************************************)
(* Model of trame_server/utils/typed_state.py: the value codecs            *)
(* (DefaultEncoderDecoder, CollectionEncoderDecoder), the proxy builder    *)
(* (_build_proxy_cls, ProxyField, NameField), as_dataclass/from_dataclass  *)
(* and the change binder (bind_typed_state_change), over a model of the    *)
(* trame State store (trame_server.state.State, which typed_state.py only  *)
(* imports).                                                               *)
(*                                                                         *)
(* Python values are tagged tuples:                                        *)
(*   <<"none">>  <<"int", n>>  <<"float", n>>  <<"str", s>>                *)
(*   <<"enum", cls, member>>  <<"uuid", n>>  <<"decimal", coeff, places>>  *)
(*   <<"datetime", day, hour, tz>>  <<"date", day>>  <<"time", hour, tz>>  *)
(*   <<"list", <<v1, ...>> >>  <<"dict", << <<k1, v1>>, ... >> >>          *)
(*   <<"obj", cls, <<field values in declaration order>> >>   (dataclass)  *)
(*   <<"proxy", state_id>>   (a node of a value-proxy tree)                *)
(*   <<"raise", exception>>  (the call raised)                             *)
(* tz is <<"naive">> or <<"tz", offset in hours>>.                         *)
(* Types are tagged tuples too:                                            *)
(*   <<"int">> <<"float">> <<"str">> <<"enum", cls>> <<"uuid">>            *)
(*   <<"decimal">> <<"datetime">> <<"date">> <<"time">>                    *)
(*   <<"list", T>>  <<"dict", K, V>>  <<"dataclass", cls>>                 *)
(***************************************************************************)
EXTENDS Integers, Sequences, FiniteSets, TLC

VARIABLES
    store,      \* State: key -> raw value, for the keys that are present
    dirty,      \* State: keys changed since the last flush
    proxies,    \* the value-proxy roots built so far, in the order they were built
    written,    \* key -> the raw value last put under it through a proxy
    bindings,   \* State.change registrations made by bind_typed_state_change
    calls,      \* the callback invocations the last operation made: <<binding, arguments>>
    last,       \* the last operation: <<name, result, target, argument>>
    codec       \* the codec under test: declared type, value, raw, result

vars == <<store, dirty, proxies, written, bindings, calls, last, codec>>

-----------------------------------------------------------------------------
(* Bounds of the model *)

\* number of value-proxy roots built over the one store
MaxProxies == 2
\* number of bind_typed_state_change calls
MaxBindings == 1
\* leaf values written are 1..MaxVal (as int or float)
MaxVal == 2
\* length of the lists and dicts given to the codec
MaxLen == 2

-----------------------------------------------------------------------------
(* Python values *)

None == <<"none">>
MISSING == <<"MISSING">>
Raise(exc) == <<"raise", exc>>
IsRaise(v) == v[1] = "raise"
PyInt(n) == <<"int", n>>
PyFloat(n) == <<"float", n>>
PyStr(s) == <<"str", s>>
Naive == <<"naive">>
Tz(off) == <<"tz", off>>

Digit == <<"0", "1", "2", "3", "4", "5", "6", "7", "8", "9">>
TwoDigit(n) == Digit[(n \div 10) + 1] \o Digit[(n % 10) + 1]

\* members of MyEnum and their auto() values
MyEnumMembers == <<"A", "B", "C">>
EnumValue(cls, member) ==
    PyInt(CHOOSE i \in 1..Len(MyEnumMembers) : MyEnumMembers[i] = member)

IsNumber(v) == v[1] \in {"int", "float"}

\* utc hour count of an aware datetime
Instant(dt) == dt[2] * 24 + dt[3] - dt[4][2]
\* value of a Decimal (coefficient, decimal places) scaled to two places
Scaled(d) == IF d[3] = 0 THEN d[2] * 100 ELSE IF d[3] = 1 THEN d[2] * 10 ELSE d[2]

RECURSIVE PyEq(_, _)
RECURSIVE DictGet(_, _)
\* position of key k in the pairs of a dict, 0 when absent
DictGet(pairs, k) ==
    IF pairs = <<>> THEN 0
    ELSE IF PyEq(pairs[Len(pairs)][1], k) THEN Len(pairs)
    ELSE DictGet(SubSeq(pairs, 1, Len(pairs) - 1), k)

\* Python's ==
PyEq(x, y) ==
    IF IsNumber(x) /\ IsNumber(y) THEN x[2] = y[2]
    ELSE IF x[1] # y[1] THEN FALSE
    ELSE IF x[1] = "datetime" THEN
        IF x[4] = Naive /\ y[4] = Naive THEN x = y
        ELSE IF x[4] # Naive /\ y[4] # Naive THEN Instant(x) = Instant(y)
        ELSE FALSE
    ELSE IF x[1] = "decimal" THEN Scaled(x) = Scaled(y)
    ELSE IF x[1] = "list" THEN
        /\ Len(x[2]) = Len(y[2])
        /\ \A i \in 1..Len(x[2]) : PyEq(x[2][i], y[2][i])
    ELSE IF x[1] = "dict" THEN
        /\ Len(x[2]) = Len(y[2])
        /\ \A i \in 1..Len(x[2]) :
              LET j == DictGet(y[2], x[2][i][1])
              IN  j # 0 /\ PyEq(x[2][i][2], y[2][j][2])
    ELSE IF x[1] = "obj" THEN
        /\ x[2] = y[2]
        /\ Len(x[3]) = Len(y[3])
        /\ \A i \in 1..Len(x[3]) : PyEq(x[3][i], y[3][i])
    ELSE x = y

\* d[k] = v on a dict held as its pairs in insertion order
DictSet(pairs, k, v) ==
    LET j == DictGet(pairs, k)
    IN  IF j = 0 THEN Append(pairs, <<k, v>>)
        ELSE [pairs EXCEPT ![j] = <<pairs[j][1], v>>]

-----------------------------------------------------------------------------
(* Text forms: str(), isoformat() and the parsers that read them back.     *)
(* A parser is the inverse of its formatter on the strings the formatter   *)
(* produces over the model's value domain, and rejects any other string.   *)

IntStr(n) == IF n < 10 THEN Digit[n + 1] ELSE TwoDigit(n)
IntDomain == 0..99
IntText == [s \in {IntStr(n) : n \in IntDomain} |->
               CHOOSE n \in IntDomain : IntStr(n) = s]
ParseInt(s) ==
    IF s \in DOMAIN IntText THEN PyInt(IntText[s]) ELSE Raise("ValueError")

\* str(UUID)
UuidStr(u) == "00000000-0000-0000-0000-00000000000" \o Digit[u[2] + 1]
UuidDomain == {<<"uuid", n>> : n \in 0..9}
UuidText == [s \in {UuidStr(u) : u \in UuidDomain} |->
                CHOOSE u \in UuidDomain : UuidStr(u) = s]
ParseUuid(s) ==
    IF s \in DOMAIN UuidText THEN UuidText[s] ELSE Raise("ValueError")

\* str(Decimal): the coefficient with its decimal places kept ("1.5", "1.50")
DecimalStr(d) ==
    IF d[3] = 0 THEN IntStr(d[2])
    ELSE IF d[3] = 1 THEN IntStr(d[2] \div 10) \o "." \o Digit[(d[2] % 10) + 1]
    ELSE IntStr(d[2] \div 100) \o "." \o TwoDigit(d[2] % 100)
DecimalDomain ==
    {<<"decimal", c, p>> : c \in 0..99, p \in {0}} \cup
    {<<"decimal", c, p>> : c \in 0..200, p \in 1..2}
DecimalText == [s \in {DecimalStr(d) : d \in DecimalDomain} |->
                   CHOOSE d \in DecimalDomain : DecimalStr(d) = s]
ParseDecimal(s) ==
    IF s \in DOMAIN DecimalText THEN DecimalText[s] ELSE Raise("InvalidOperation")

TzSet == {Naive, Tz(-1), Tz(0), Tz(1)}
TzSuffix(tz) ==
    IF tz = Naive THEN ""
    ELSE IF tz[2] < 0 THEN "-" \o TwoDigit(-tz[2]) \o ":00"
    ELSE "+" \o TwoDigit(tz[2]) \o ":00"

\* date.isoformat(); every date of the model lies in January 2024
DateStr(day) == "2024-01-" \o TwoDigit(day)
TimeStr(hour, tz) == TwoDigit(hour) \o ":00:00" \o TzSuffix(tz)
date_isoformat(d) == PyStr(DateStr(d[2]))
time_isoformat(t) == PyStr(TimeStr(t[2], t[3]))
datetime_isoformat(dt) == PyStr(DateStr(dt[2]) \o "T" \o TimeStr(dt[3], dt[4]))

DateDomain == {<<"date", d>> : d \in 1..31}
TimeDomain == {<<"time", h, tz>> : h \in 0..23, tz \in TzSet}
DatetimeDomain == {<<"datetime", d, h, tz>> : d \in 9..12, h \in 0..23, tz \in TzSet}

\* the strings each parser reads, with the value each stands for
DateText == [s \in {date_isoformat(d)[2] : d \in DateDomain} |->
                CHOOSE d \in DateDomain : date_isoformat(d)[2] = s]
TimeText == [s \in {time_isoformat(t)[2] : t \in TimeDomain} |->
                CHOOSE t \in TimeDomain : time_isoformat(t)[2] = s]
DatetimeText == [s \in {datetime_isoformat(dt)[2] : dt \in DatetimeDomain} |->
                    CHOOSE dt \in DatetimeDomain : datetime_isoformat(dt)[2] = s]

date_fromisoformat(obj) ==
    IF obj[1] # "str" THEN Raise("TypeError")
    ELSE IF obj[2] \in DOMAIN DateText THEN DateText[obj[2]]
    ELSE Raise("ValueError")

time_fromisoformat(obj) ==
    IF obj[1] # "str" THEN Raise("TypeError")
    ELSE IF obj[2] \in DOMAIN TimeText THEN TimeText[obj[2]]
    ELSE Raise("ValueError")

\* datetime.fromisoformat also reads a date alone, as midnight
datetime_fromisoformat(obj) ==
    IF obj[1] # "str" THEN Raise("TypeError")
    ELSE IF obj[2] \in DOMAIN DatetimeText THEN DatetimeText[obj[2]]
    ELSE IF obj[2] \in DOMAIN DateText
    THEN <<"datetime", DateText[obj[2]][2], 0, Naive>>
    ELSE Raise("ValueError")

\* datetime.astimezone(timezone.utc): a naive datetime is taken to be in the
\* system local time zone, whose offset is tzlocal
astimezone_utc(dt, tzlocal) ==
    LET off == IF dt[4] = Naive THEN tzlocal ELSE dt[4][2]
        t   == dt[2] * 24 + dt[3] - off
    IN  <<"datetime", t \div 24, t % 24, Tz(0)>>

-----------------------------------------------------------------------------
(* The constructor call obj_type(obj) for the types of the model *)

int_new(obj) ==
    IF IsNumber(obj) THEN PyInt(obj[2])
    ELSE IF obj[1] = "str" THEN ParseInt(obj[2])
    ELSE Raise("TypeError")

float_new(obj) ==
    IF IsNumber(obj) THEN PyFloat(obj[2])
    ELSE IF obj[1] = "str" THEN
        LET n == ParseInt(obj[2]) IN IF IsRaise(n) THEN n ELSE PyFloat(n[2])
    ELSE Raise("TypeError")

str_new(obj) ==
    IF obj[1] = "str" THEN obj
    ELSE IF obj[1] = "int" THEN PyStr(IntStr(obj[2]))
    ELSE IF obj[1] = "uuid" THEN PyStr(UuidStr(obj))
    ELSE IF obj[1] = "decimal" THEN PyStr(DecimalStr(obj))
    ELSE IF obj[1] = "date" THEN date_isoformat(obj)
    ELSE IF obj[1] = "time" THEN time_isoformat(obj)
    ELSE PyStr("None")

\* Enum lookup by value; a member is returned as it is
enum_new(cls, obj) ==
    IF obj[1] = "enum" /\ obj[2] = cls THEN obj
    ELSE IF IsNumber(obj) /\ obj[2] \in 1..Len(MyEnumMembers)
    THEN <<"enum", cls, MyEnumMembers[obj[2]]>>
    ELSE Raise("ValueError")

UUID_new(obj) ==
    IF obj[1] = "str" THEN ParseUuid(obj[2])
    ELSE IF obj = None THEN Raise("TypeError")
    ELSE Raise("AttributeError")

Decimal_new(obj) ==
    IF obj[1] = "str" THEN ParseDecimal(obj[2])
    ELSE IF obj[1] = "decimal" THEN obj
    ELSE IF IsNumber(obj) THEN <<"decimal", obj[2], 0>>
    ELSE Raise("TypeError")

IsClass(obj_type) == obj_type[1] \notin {"list", "dict"}

type_call(obj_type, obj) ==
    CASE obj_type[1] = "int" -> int_new(obj)
      [] obj_type[1] = "float" -> float_new(obj)
      [] obj_type[1] = "str" -> str_new(obj)
      [] obj_type[1] = "enum" -> enum_new(obj_type[2], obj)
      [] obj_type[1] = "uuid" -> UUID_new(obj)
      [] obj_type[1] = "decimal" -> Decimal_new(obj)
      [] OTHER -> Raise("TypeError")

\* typing.get_args
get_args(obj_type) ==
    IF obj_type[1] = "list" THEN <<obj_type[2]>>
    ELSE IF obj_type[1] = "dict" THEN <<obj_type[2], obj_type[3]>>
    ELSE <<>>

-----------------------------------------------------------------------------
(* DefaultEncoderDecoder *)

DefaultEncoderDecoder_encode(obj, tzlocal) ==
    IF obj[1] = "uuid" THEN PyStr(UuidStr(obj))
    ELSE IF obj[1] = "enum" THEN EnumValue(obj[2], obj[3])
    ELSE IF obj[1] = "decimal" THEN PyStr(DecimalStr(obj))
    ELSE IF obj[1] = "datetime" THEN datetime_isoformat(astimezone_utc(obj, tzlocal))
    ELSE IF obj[1] = "date" THEN date_isoformat(obj)
    ELSE IF obj[1] = "time" THEN time_isoformat(obj)
    ELSE obj

\* issubclass(obj_type, ...) raises TypeError when obj_type is list[...] or
\* dict[...], which is no class
DefaultEncoderDecoder_decode(obj, obj_type) ==
    IF ~IsClass(obj_type) THEN Raise("TypeError")
    ELSE IF obj_type[1] = "datetime" THEN datetime_fromisoformat(obj)
    ELSE IF obj_type[1] = "date" THEN date_fromisoformat(obj)
    ELSE IF obj_type[1] = "time" THEN time_fromisoformat(obj)
    ELSE type_call(obj_type, obj)

-----------------------------------------------------------------------------
(* CollectionEncoderDecoder over a list of unit codecs *)

\* default_encoder(): CollectionEncoderDecoder([DefaultEncoderDecoder()])
default_encoder == <<"DefaultEncoderDecoder">>

unit_encode(encoder, obj, tzlocal) == DefaultEncoderDecoder_encode(obj, tzlocal)
unit_decode(encoder, obj, obj_type) == DefaultEncoderDecoder_decode(obj, obj_type)

\* for encoder in self._encoders: try: return encoder.encode(obj)
\*                                except TypeError: continue
\* return obj
RECURSIVE chain_encode(_, _, _)
chain_encode(encoders, obj, tzlocal) ==
    IF encoders = <<>> THEN obj
    ELSE LET r == unit_encode(Head(encoders), obj, tzlocal)
         IN  IF r = Raise("TypeError") THEN chain_encode(Tail(encoders), obj, tzlocal)
             ELSE r

\* the same loop over decode, ending in "return obj"
RECURSIVE chain_decode(_, _, _)
chain_decode(encoders, obj, obj_type) ==
    IF encoders = <<>> THEN obj
    ELSE LET r == unit_decode(Head(encoders), obj, obj_type)
         IN  IF r = Raise("TypeError") THEN chain_decode(Tail(encoders), obj, obj_type)
             ELSE r

RECURSIVE CollectionEncoderDecoder_encode(_, _, _)
RECURSIVE encode_list(_, _, _)
RECURSIVE encode_dict(_, _, _, _)

\* [self.encode(value) for value in obj]; an exception ends the comprehension
encode_list(encoders, items, tzlocal) ==
    IF items = <<>> THEN <<"list", <<>> >>
    ELSE LET h == CollectionEncoderDecoder_encode(encoders, Head(items), tzlocal)
             t == encode_list(encoders, Tail(items), tzlocal)
         IN  IF IsRaise(h) THEN h
             ELSE IF IsRaise(t) THEN t
             ELSE <<"list", <<h>> \o t[2]>>

\* {self.encode(key): self.encode(value) for key, value in obj.items()}
encode_dict(encoders, pairs, acc, tzlocal) ==
    IF pairs = <<>> THEN <<"dict", acc>>
    ELSE LET k == CollectionEncoderDecoder_encode(encoders, Head(pairs)[1], tzlocal)
             v == CollectionEncoderDecoder_encode(encoders, Head(pairs)[2], tzlocal)
         IN  IF IsRaise(k) THEN k
             ELSE IF IsRaise(v) THEN v
             ELSE encode_dict(encoders, Tail(pairs), DictSet(acc, k, v), tzlocal)

CollectionEncoderDecoder_encode(encoders, obj, tzlocal) ==
    IF obj[1] = "dict" THEN encode_dict(encoders, obj[2], <<>>, tzlocal)
    ELSE IF obj[1] = "list" THEN encode_list(encoders, obj[2], tzlocal)
    ELSE chain_encode(encoders, obj, tzlocal)

RECURSIVE CollectionEncoderDecoder_decode(_, _, _)
RECURSIVE decode_list(_, _, _)
RECURSIVE decode_dict(_, _, _, _, _)

decode_list(encoders, items, value_type) ==
    IF items = <<>> THEN <<"list", <<>> >>
    ELSE LET h == CollectionEncoderDecoder_decode(encoders, Head(items), value_type)
             t == decode_list(encoders, Tail(items), value_type)
         IN  IF IsRaise(h) THEN h
             ELSE IF IsRaise(t) THEN t
             ELSE <<"list", <<h>> \o t[2]>>

decode_dict(encoders, pairs, acc, key_type, value_type) ==
    IF pairs = <<>> THEN <<"dict", acc>>
    ELSE LET k == CollectionEncoderDecoder_decode(encoders, Head(pairs)[1], key_type)
             v == CollectionEncoderDecoder_decode(encoders, Head(pairs)[2], value_type)
         IN  IF IsRaise(k) THEN k
             ELSE IF IsRaise(v) THEN v
             ELSE decode_dict(encoders, Tail(pairs), DictSet(acc, k, v),
                              key_type, value_type)

\* key_type, value_type = get_args(obj_type) raises ValueError, and
\* get_args(obj_type)[0] IndexError, when obj_type has no such arguments
CollectionEncoderDecoder_decode(encoders, obj, obj_type) ==
    IF obj[1] = "dict" THEN
        IF Len(get_args(obj_type)) # 2 THEN Raise("ValueError")
        ELSE decode_dict(encoders, obj[2], <<>>,
                         get_args(obj_type)[1], get_args(obj_type)[2])
    ELSE IF obj[1] = "list" THEN
        IF get_args(obj_type) = <<>> THEN Raise("IndexError")
        ELSE decode_list(encoders, obj[2], get_args(obj_type)[1])
    ELSE chain_decode(encoders, obj, obj_type)

-----------------------------------------------------------------------------
(* The dataclasses the proxies are built from.  MyData and MyBiggerData    *)
(* are those of the tests; MyRoot nests MyBiggerData one level deeper,     *)
(* behind a leaf that has no default.  A default_factory is held as the    *)
(* value it returns.                                                       *)

Field(name, type, default, default_factory) ==
    [name |-> name, type |-> type, default |-> default,
     default_factory |-> default_factory]

fields(cls) ==
    CASE cls = "MyData" ->
            << Field("a", <<"int">>, PyInt(1), MISSING),
               Field("b", <<"int">>, PyInt(2), MISSING) >>
      [] cls = "MyBiggerData" ->
            << Field("my_other_data", <<"dataclass", "MyData">>, MISSING,
                     <<"obj", "MyData", <<PyInt(1), PyInt(2)>> >>),
               Field("c", <<"float">>, PyFloat(42), MISSING) >>
      [] cls = "MyRoot" ->
            << Field("when", <<"datetime">>, MISSING, MISSING),
               Field("bigger", <<"dataclass", "MyBiggerData">>, MISSING, MISSING) >>

is_dataclass(type) == type[1] = "dataclass"

-----------------------------------------------------------------------------
(* trame_server.state.State: a flat store with deferred change            *)
(* notification.  A state is [store, dirty].                               *)

State_getitem(s, key) ==
    IF key \in DOMAIN s.store THEN s.store[key] ELSE None

State_put(s, key, value) ==
    [store |-> [k \in DOMAIN s.store \cup {key} |->
                   IF k = key THEN value ELSE s.store[k]],
     dirty |-> s.dirty \cup {key}]

\* state[key] = value: the key is due for notification when its value changes
State_setitem(s, key, value) ==
    IF key \in DOMAIN s.store /\ PyEq(s.store[key], value) THEN s
    ELSE State_put(s, key, value)

\* state.setdefault(key, value): nothing happens when the key is present
State_setdefault(s, key, value) ==
    IF key \in DOMAIN s.store THEN s ELSE State_put(s, key, value)

\* the callbacks due at a flush: each registration with a changed key, once,
\* in registration order
RECURSIVE State_due(_, _, _)
State_due(s, registered, i) ==
    IF i > Len(registered) THEN <<>>
    ELSE (IF \E j \in 1..Len(registered[i].keys) : registered[i].keys[j] \in s.dirty
          THEN <<i>> ELSE <<>>) \o State_due(s, registered, i + 1)

-----------------------------------------------------------------------------
(* Proxy nodes.                                                            *)
(*   <<"proxy", state_id, dataclass, prefix, cls_suffix>>  a proxy instance *)
(*   <<"ProxyField", state_id, type, default, default_factory>>             *)
(*   <<"NameField", state_id>>                                              *)
(* A field dict and a class namespace are sequences of <<key, node>>.      *)

is_proxy_class(instance) == instance[1] = "proxy"

get_state_id(instance, default) ==
    IF instance[1] = "proxy" THEN instance[2] ELSE default

\* position of a string key in a dict, 0 when absent
RECURSIVE key_index(_, _)
key_index(d, key) ==
    IF d = <<>> THEN 0
    ELSE IF d[Len(d)][1] = key THEN Len(d)
    ELSE key_index(SubSeq(d, 1, Len(d) - 1), key)

dict_set(d, key, value) ==
    IF key_index(d, key) = 0 THEN Append(d, <<key, value>>)
    ELSE [d EXCEPT ![key_index(d, key)] = <<key, value>>]

RECURSIVE dict_update(_, _)
dict_update(d, other) ==
    IF other = <<>> THEN d
    ELSE dict_update(dict_set(d, other[1][1], other[1][2]), Tail(other))

dict_get(d, key) == d[key_index(d, key)][2]

dict_keys(d) == [i \in 1..Len(d) |-> d[i][1]]

\* the handlers, the one of state_names_proxy giving the field's name
handler_field_name(cls_suffix, state_id, f) ==
    IF cls_suffix = "__Proxy"
    THEN <<"ProxyField", state_id, f.type, f.default, f.default_factory>>
    ELSE <<"NameField", f.name>>

\* the handler of state_proxy (ProxyField) and of state_names_proxy (NameField)
handler(cls_suffix, state_id, f) ==
    IF cls_suffix = "__Proxy"
    THEN <<"ProxyField", state_id, f.type, f.default, f.default_factory>>
    ELSE <<"NameField", state_id>>

\* the prefix joined to the class name, an empty prefix too
class_prefix_always(prefix, class_name) == prefix \o "__" \o class_name

class_prefix(prefix, class_name) ==
    IF prefix # "" THEN prefix \o "__" \o class_name ELSE class_name

field_state_id(prefix, name) == prefix \o "__" \o name

\* _build_proxy_cls returns the proxy instance; the model returns with it the
\* class namespace, inner_field_dict as it ends (field_dict), inner_field_dict
\* as it is when it is copied into the caller's dict (exported), and the
\* leaf descriptors in the order the handler built them (built)
RECURSIVE _build_proxy_cls(_, _, _)
RECURSIVE build_fields(_, _, _, _, _)

\* the field put into inner_field_dict under state_id, a nested proxy too
add_field_under_state_id(acc, name, state_id, field, built) ==
    [namespace |-> Append(acc.namespace, <<name, field>>),
     field_dict |-> dict_set(acc.field_dict, state_id, field),
     built |-> acc.built \o built]

\* namespace[f.name] = field; inner_field_dict[get_state_id(field, state_id)] = field
add_field(acc, name, state_id, field, built) ==
    [namespace |-> Append(acc.namespace, <<name, field>>),
     field_dict |-> dict_set(acc.field_dict, get_state_id(field, state_id), field),
     built |-> acc.built \o built]

\* the dataclass branch without the update of inner_field_dict
add_proxy_field_no_update(acc, name, state_id, sub) ==
    add_field(acc, name, state_id, sub.instance, sub.built)

\* the dataclass branch: field_dict.update(get_field_proxy_dict(field))
add_proxy_field(acc, name, state_id, sub) ==
    add_field([acc EXCEPT !.field_dict = dict_update(acc.field_dict, sub.exported)],
              name, state_id, sub.instance, sub.built)

add_handler_field(acc, name, state_id, field) ==
    add_field(acc, name, state_id, field, <<field>>)

\* one turn of "for f in fields(dataclass_type)"
build_field(f, state_id, cls_suffix, acc) ==
    IF is_dataclass(f.type)
    THEN add_proxy_field(acc, f.name, state_id,
                         _build_proxy_cls(f.type[2], state_id, cls_suffix))
    ELSE add_handler_field(acc, f.name, state_id, handler(cls_suffix, state_id, f))

build_fields(dataclass_type, prefix, cls_suffix, i, acc) ==
    IF i > Len(fields(dataclass_type)) THEN acc
    ELSE build_fields(dataclass_type, prefix, cls_suffix, i + 1,
            build_field(fields(dataclass_type)[i],
                        field_state_id(prefix, fields(dataclass_type)[i].name),
                        cls_suffix, acc))

\* proxy_cls = type(...); proxy_instance = proxy_cls();
\* inner_field_dict[prefix] = proxy_instance
new_proxy_cls(inner, proxy_instance) ==
    [instance |-> proxy_instance,
     namespace |-> inner.namespace,
     exported |-> inner.field_dict,
     field_dict |-> dict_set(inner.field_dict, proxy_instance[2], proxy_instance),
     built |-> inner.built]

build_proxy_cls_as(dataclass_type, prefix, class_name_prefix, cls_suffix) ==
    new_proxy_cls(
        build_fields(dataclass_type, class_name_prefix, cls_suffix, 1,
                     [namespace |-> <<>>, field_dict |-> <<>>, built |-> <<>>]),
        <<"proxy", class_name_prefix, dataclass_type, prefix, cls_suffix>>)

_build_proxy_cls(dataclass_type, prefix, cls_suffix) ==
    build_proxy_cls_as(dataclass_type, prefix,
                       class_prefix(prefix, dataclass_type), cls_suffix)

\* system local time zones (utc offset in hours) a process may run under
LocalOffsets == {0, 1}

\* the (dataclass, state_namespace) pairs proxies are built for
ProxyArgs ==
    { <<"MyRoot", "">>,
      <<"MyData", "MyRoot__bigger__MyBiggerData__my_other_data">> }

\* the proxy instances held in a field dict
dict_proxies(d) == {d[i][2] : i \in {j \in 1..Len(d) : is_proxy_class(d[j][2])}}

\* every proxy instance these builds create, nested ones included
ProxyInstances ==
    UNION { dict_proxies(_build_proxy_cls(a[1], a[2], sfx).field_dict) :
            a \in ProxyArgs, sfx \in {"__Proxy", "__ProxyName"} }

\* the class each proxy instance was created from, as _build_proxy_cls made it
ProxyClasses ==
    [instance \in ProxyInstances |->
        _build_proxy_cls(instance[3], instance[4], instance[5])]

\* the class attributes of a proxy instance
proxy_cls(instance) == ProxyClasses[instance]

_get_proxy_dataclass_type(instance) ==
    IF instance[1] = "proxy" THEN <<"dataclass", instance[3]>> ELSE None

get_field_proxy_dict(instance) == proxy_cls(instance).field_dict

\* the class attribute f.name of a proxy instance (before any descriptor __get__)
class_attr(instance, name) == dict_get(proxy_cls(instance).namespace, name)

state_proxy(dataclass_type, state_namespace) ==
    proxy_cls(<<"proxy", class_prefix(state_namespace, dataclass_type),
                dataclass_type, state_namespace, "__Proxy">>)

state_names_proxy(dataclass_type, state_namespace) ==
    proxy_cls(<<"proxy", class_prefix(state_namespace, dataclass_type),
                dataclass_type, state_namespace, "__ProxyName">>)

-----------------------------------------------------------------------------
(* ProxyField *)

encode(value, tzlocal) == CollectionEncoderDecoder_encode(default_encoder, value, tzlocal)
decode(value, type) == CollectionEncoderDecoder_decode(default_encoder, value, type)

\* ProxyField.__init__ writing the default with state[key] = value
ProxyField_init_setitem(s, field, tzlocal) ==
    LET default_value == IF field[4] = MISSING /\ field[5] # MISSING
                         THEN field[5] ELSE field[4]
    IN  IF default_value # MISSING
        THEN State_setitem(s, field[2], encode(default_value, tzlocal))
        ELSE s

\* ProxyField.__init__: the default, or what the factory returns, is
\* written with setdefault
ProxyField_init(s, field, tzlocal) ==
    LET default_value == IF field[4] = MISSING /\ field[5] # MISSING
                         THEN field[5] ELSE field[4]
    IN  IF default_value # MISSING
        THEN State_setdefault(s, field[2], encode(default_value, tzlocal))
        ELSE s

RECURSIVE init_fields(_, _, _)
init_fields(s, built, tzlocal) ==
    IF built = <<>> THEN s
    ELSE init_fields(ProxyField_init(s, Head(built), tzlocal), Tail(built), tzlocal)

\* get_value answering from the default the descriptor was built with
ProxyField_get_value_cached(s, field) ==
    IF field[4] # MISSING THEN field[4]
    ELSE decode(State_getitem(s, field[2]), field[3])

ProxyField_get_value(s, field) == decode(State_getitem(s, field[2]), field[3])

\* field.set_value(value): the state it leaves and its result, None or the
\* exception encode raised
ProxyField_set_value(s, field, value, tzlocal) ==
    LET raw == encode(value, tzlocal)
    IN  IF IsRaise(raw) THEN [s |-> s, result |-> raw]
        ELSE [s |-> State_setitem(s, field[2], raw), result |-> None]

\* getattr(instance, name): a ProxyField is read, a NameField gives its
\* state id, a nested proxy is returned as it is
descriptor_get(s, attr) ==
    IF attr[1] = "ProxyField" THEN ProxyField_get_value(s, attr)
    ELSE IF attr[1] = "NameField" THEN PyStr(attr[2])
    ELSE attr

getattr(s, instance, name) == descriptor_get(s, class_attr(instance, name))

-----------------------------------------------------------------------------
(* as_dataclass, from_dataclass *)

RECURSIVE as_dataclass(_, _)
RECURSIVE as_dataclass_fields(_, _, _, _)

\* as_dataclass(value) if is_proxy_class(value) else value
as_dataclass_value(s, value) ==
    IF is_proxy_class(value) THEN as_dataclass(s, value) ELSE value

\* an exception raised by a leaf read ends the loop
as_dataclass_next(s, instance, i, kwargs, value) ==
    IF IsRaise(value) THEN value
    ELSE as_dataclass_fields(s, instance, i + 1, Append(kwargs, value))

\* the loop over fields(dataclass_type)
as_dataclass_fields(s, instance, i, kwargs) ==
    IF i > Len(fields(instance[3])) THEN <<"obj", instance[3], kwargs>>
    ELSE as_dataclass_next(s, instance, i, kwargs,
            as_dataclass_value(s, getattr(s, instance, fields(instance[3])[i].name)))

as_dataclass(s, instance) ==
    IF _get_proxy_dataclass_type(instance) = None THEN Raise("RuntimeError")
    ELSE as_dataclass_fields(s, instance, 1, <<>>)

\* isinstance(dataclass_obj, dataclass_type)
isinstance(obj, dataclass_type) == obj[1] = "obj" /\ obj[2] = dataclass_type

\* from_dataclass returns nothing or raises; the model returns the state it
\* leaves, the result (None or the exception) and the leaf writes it made
RECURSIVE from_dataclass(_, _, _, _)
RECURSIVE from_dataclass_fields(_, _, _, _, _, _)

\* after from_dataclass(proxy_value, value) on a nested proxy
from_dataclass_nested(sub, instance, dataclass_obj, i, writes, tzlocal) ==
    IF sub.result # None
    THEN [s |-> sub.s, result |-> sub.result, writes |-> writes \o sub.writes]
    ELSE from_dataclass_fields(sub.s, instance, dataclass_obj, i + 1,
                               writes \o sub.writes, tzlocal)

\* after setattr(instance, f.name, value) on a leaf
from_dataclass_leaf(set, s, instance, dataclass_obj, i, writes, tzlocal, write) ==
    IF set.result # None
    THEN [s |-> s, result |-> set.result, writes |-> writes]
    ELSE from_dataclass_fields(set.s, instance, dataclass_obj, i + 1,
                               Append(writes, write), tzlocal)

\* one turn of "for f in fields(dataclass_type)": proxy_value = getattr(...)
from_dataclass_field(s, instance, dataclass_obj, i, writes, tzlocal, attr, field, value) ==
    IF IsRaise(attr) THEN [s |-> s, result |-> attr, writes |-> writes]
    ELSE IF is_proxy_class(attr)
    THEN from_dataclass_nested(from_dataclass(s, attr, value, tzlocal),
                               instance, dataclass_obj, i, writes, tzlocal)
    ELSE from_dataclass_leaf(ProxyField_set_value(s, field, value, tzlocal),
                             s, instance, dataclass_obj, i, writes, tzlocal,
                             <<field[2], encode(value, tzlocal)>>)

from_dataclass_fields(s, instance, dataclass_obj, i, writes, tzlocal) ==
    IF i > Len(fields(instance[3]))
    THEN [s |-> s, result |-> None, writes |-> writes]
    ELSE from_dataclass_field(s, instance, dataclass_obj, i, writes, tzlocal,
            getattr(s, instance, fields(instance[3])[i].name),
            class_attr(instance, fields(instance[3])[i].name),
            dataclass_obj[3][i])

from_dataclass(s, instance, dataclass_obj, tzlocal) ==
    IF _get_proxy_dataclass_type(instance) = None
    THEN [s |-> s, result |-> Raise("RuntimeError"), writes |-> <<>>]
    ELSE IF ~isinstance(dataclass_obj, instance[3])
    THEN [s |-> s, result |-> Raise("TypeError"), writes |-> <<>>]
    ELSE from_dataclass_fields(s, instance, dataclass_obj, 1, <<>>, tzlocal)

-----------------------------------------------------------------------------
(* The binder.  A key is a str (a name-proxy leaf) or a name-proxy         *)
(* instance; keys are one key, <<"tuple", keys>> or <<"list", keys>>.      *)

\* get_reactive_state_id_keys returning after the first key
get_reactive_state_id_keys_first(keys) ==
    IF keys = <<>> THEN <<>>
    ELSE IF is_proxy_class(Head(keys))
    THEN dict_keys(get_field_proxy_dict(Head(keys)))
    ELSE <<Head(keys)[2]>>

\* get_reactive_state_id_keys appending only the state id of a proxy key
RECURSIVE get_reactive_state_id_keys_own_id(_)
get_reactive_state_id_keys_own_id(keys) ==
    IF keys = <<>> THEN <<>>
    ELSE <<get_state_id(Head(keys), Head(keys)[2])>>
         \o get_reactive_state_id_keys_own_id(Tail(keys))

RECURSIVE get_reactive_state_id_keys(_)
get_reactive_state_id_keys(keys) ==
    IF keys = <<>> THEN <<>>
    ELSE (IF is_proxy_class(Head(keys))
          THEN dict_keys(get_field_proxy_dict(Head(keys)))
          ELSE <<Head(keys)[2]>>) \o get_reactive_state_id_keys(Tail(keys))

\* get_value_state_keys giving the keys last to first
get_value_state_keys_reversed(keys) ==
    [i \in 1..Len(keys) |->
        get_state_id(keys[Len(keys) + 1 - i], keys[Len(keys) + 1 - i][2])]

get_value_state_keys(keys) ==
    [i \in 1..Len(keys) |-> get_state_id(keys[i], keys[i][2])]

\* the tuple of keys bind_typed_state_change works on
normalized_keys(keys) ==
    IF keys[1] \in {"list", "tuple"} THEN keys[2] ELSE <<keys>>

\* the registration state.change(*get_reactive_state_id_keys(keys)) makes,
\* with what the closure _on_state_change holds
bind_typed_state_change(keys, data) ==
    [keys |-> get_reactive_state_id_keys(normalized_keys(keys)),
     value_keys |-> get_value_state_keys(normalized_keys(keys)),
     data |-> data,
     tokens |-> normalized_keys(keys)]

\* the arguments _on_state_change calls the callback with
field_value(s, v) == IF is_proxy_class(v) THEN v ELSE ProxyField_get_value(s, v)

on_state_change_value(s, state_id_to_field_dict, k) ==
    IF key_index(state_id_to_field_dict, k) = 0 THEN Raise("KeyError")
    ELSE field_value(s, dict_get(state_id_to_field_dict, k))

_on_state_change(s, registration) ==
    [i \in 1..Len(registration.value_keys) |->
        on_state_change_value(s, get_field_proxy_dict(registration.data),
                              registration.value_keys[i])]

-----------------------------------------------------------------------------
(* Inputs of the operations *)

Noon(tz) == <<"datetime", 10, 12, tz>>

\* values written to a leaf of the given type
LeafValues(type) ==
    CASE type[1] = "int" -> {PyInt(n) : n \in 1..MaxVal}
      [] type[1] = "float" -> {PyFloat(MaxVal)}
      [] type[1] = "datetime" -> {Noon(Naive), Noon(Tz(0))}

MyDataObject(a, b) == <<"obj", "MyData", <<PyInt(a), PyInt(b)>> >>
MyBiggerDataObject(my_other_data, c) ==
    <<"obj", "MyBiggerData", <<my_other_data, PyFloat(c)>> >>
MyRootObject(when, bigger) == <<"obj", "MyRoot", <<when, bigger>> >>

MyDataObjects == {MyDataObject(MaxVal, 1)}
\* the third has a MyData where a MyBiggerData is declared
MyRootObjects ==
    {MyRootObject(Noon(Naive), MyBiggerDataObject(MyDataObject(MaxVal, MaxVal), MaxVal)),
     MyRootObject(Noon(Tz(0)), MyBiggerDataObject(MyDataObject(1, 1), 1)),
     MyRootObject(Noon(Tz(0)), MyDataObject(1, 1))}

\* records handed to from_dataclass, of the proxy's type or of another
DataObjects == MyDataObjects \cup MyRootObjects

\* the ProxyField descriptors of the tree under a value-proxy root
proxy_leaves(root) == {proxy_cls(root).built[i] : i \in 1..Len(proxy_cls(root).built)}

\* the proxy instances of the tree under a value-proxy root, the root included
proxy_nodes(root) == dict_proxies(get_field_proxy_dict(root))

\* name.x.y: attribute access along a path of a name proxy
RECURSIVE name_attr(_, _)
name_attr(instance, path) ==
    IF path = <<>> THEN instance
    ELSE name_attr(getattr([store |-> <<>>, dirty |-> {}], instance, Head(path)),
                   Tail(path))

\* the keys a callback is bound to, taken from a name proxy
bind_keys(name) ==
    IF name[3] = "MyRoot" THEN
        { name_attr(name, <<"when">>),
          <<"tuple", << name_attr(name, <<"bigger", "my_other_data", "b">>),
                        name_attr(name, <<"bigger", "c">>) >> >>,
          <<"tuple", << name_attr(name, <<"bigger", "my_other_data">>) >> >>,
          <<"list", << name_attr(name, <<"bigger">>),
                       name_attr(name, <<"when">>) >> >>,
          name }
    ELSE
        { name_attr(name, <<"a">>),
          <<"tuple", << name_attr(name, <<"b">>), name_attr(name, <<"a">>) >> >> }

\* for each data proxy, the keys of the name proxy of the same dataclass and
\* namespace (TypedState.name)
BindKeys ==
    [root \in {r \in ProxyInstances : r[5] = "__Proxy"} |->
        bind_keys(state_names_proxy(root[3], root[4]).instance)]

-----------------------------------------------------------------------------
(* The state machine *)

NoState == [k \in {} |-> None]
IdleCodec(tz) == [phase |-> "idle", tz |-> tz, type |-> None, obj |-> None,
                  raw |-> None, out |-> None]

Init ==
    /\ store = NoState
    /\ dirty = {}
    /\ proxies = <<>>
    /\ written = NoState
    /\ bindings = <<>>
    /\ calls = <<>>
    /\ last = <<"init", None, None, None>>
    /\ codec = IdleCodec(0)

State == [store |-> store, dirty |-> dirty]

\* the raw value last put under each key, after these writes
RECURSIVE record_writes(_, _)
record_writes(w, writes) ==
    IF writes = <<>> THEN w
    ELSE record_writes([k \in DOMAIN w \cup {Head(writes)[1]} |->
                           IF k = Head(writes)[1] THEN Head(writes)[2] ELSE w[k]],
                       Tail(writes))

\* state_proxies(dataclass_type, state, state_namespace=...), as in
\* TypedState.__init__: the defaults are written where the key is absent
Constructed(built, s) ==
    /\ store' = s.store
    /\ dirty' = s.dirty
    /\ proxies' = Append(proxies, built.instance)
    /\ written' = [k \in DOMAIN s.store |->
                     IF k \in DOMAIN written THEN written[k] ELSE s.store[k]]
    /\ last' = <<"state_proxies", None, built.instance, None>>

Construct(built) == Constructed(built, init_fields(State, built.built, codec.tz))

StateProxies(dataclass_type, state_namespace) ==
    /\ Len(proxies) < MaxProxies
    /\ Construct(state_proxy(dataclass_type, state_namespace))
    /\ calls' = <<>>
    /\ UNCHANGED <<bindings, codec>>

\* data.<path> = value through proxy i
SetValue(i, field, value) ==
    /\ LET r == ProxyField_set_value(State, field, value, codec.tz)
       IN  /\ store' = r.s.store
           /\ dirty' = r.s.dirty
           /\ written' = IF r.result # None THEN written
                         ELSE record_writes(written,
                                 << <<field[2], encode(value, codec.tz)>> >>)
           /\ last' = <<"set_value", r.result, None, None>>
    /\ calls' = <<>>
    /\ UNCHANGED <<proxies, bindings, codec>>

\* from_dataclass(data, dataclass_obj) on proxy i; the target and the
\* argument are remembered when it returns
Converted(r, instance, dataclass_obj) ==
    /\ store' = r.s.store
    /\ dirty' = r.s.dirty
    /\ written' = record_writes(written, r.writes)
    /\ last' = IF r.result = None
               THEN <<"from_dataclass", None, instance, dataclass_obj>>
               ELSE <<"from_dataclass", r.result, None, None>>

FromDataclass(i, dataclass_obj) ==
    /\ Converted(from_dataclass(State, proxies[i], dataclass_obj, codec.tz),
                 proxies[i], dataclass_obj)
    /\ calls' = <<>>
    /\ UNCHANGED <<proxies, bindings, codec>>

\* typed_state.bind_change(keys, callback) on the TypedState of proxy i
BindChange(i, keys) ==
    /\ Len(bindings) < MaxBindings
    /\ bindings' = Append(bindings, bind_typed_state_change(keys, proxies[i]))
    /\ last' = <<"bind_change", None, None, None>>
    /\ calls' = <<>>
    /\ UNCHANGED <<store, dirty, proxies, written, codec>>

\* state.flush(): the callbacks that are due are called, each once
Flush ==
    /\ LET due == State_due(State, bindings, 1)
       IN  calls' = [j \in 1..Len(due) |->
                        <<due[j], _on_state_change(State, bindings[due[j]])>>]
    /\ dirty' = {}
    /\ last' = <<"flush", None, dirty, None>>
    /\ UNCHANGED <<store, proxies, written, bindings, codec>>

Next ==
    \/ \E a \in ProxyArgs : StateProxies(a[1], a[2])
    \/ \E i \in 1..Len(proxies) : \E f \in proxy_leaves(proxies[i]) :
          \E v \in LeafValues(f[3]) : SetValue(i, f, v)
    \/ \E i \in 1..Len(proxies) : \E d \in DataObjects : FromDataclass(i, d)
    \/ \E i \in 1..Len(proxies) : \E k \in BindKeys[proxies[i]] : BindChange(i, k)
    \/ Flush

Spec == Init /\ [][Next]_vars

-----------------------------------------------------------------------------
(* Properties of the bindings *)

\* the number of times binding b was called
Invocations(c, b) == Cardinality({j \in 1..Len(c) : c[j][1] = b})

LeafToken(t) == t[1] = "str"
LeafBinding(r) == \A j \in 1..Len(r.tokens) : LeafToken(r.tokens[j])
SubRecordBinding(r) == \E j \in 1..Len(r.tokens) : ~LeafToken(r.tokens[j])

\* the value-proxy node at the position of a name-proxy node
value_node(t) == <<"proxy", t[2], t[3], t[4], "__Proxy">>

\* the store keys of the leaves a token stands for: its own key, or the keys
\* of the leaf descriptors built under the sub-record, at any depth
TokenLeafKeys(t) ==
    IF LeafToken(t) THEN {t[2]}
    ELSE {f[2] : f \in proxy_leaves(value_node(t))}

WatchedLeafKeys(r) == UNION {TokenLeafKeys(r.tokens[j]) : j \in 1..Len(r.tokens)}

\* the default a leaf descriptor was built with, MISSING when it has none
DefaultOf(f) == IF f[4] = MISSING /\ f[5] # MISSING THEN f[5] ELSE f[4]

\* the leaf descriptor of the data root stored under a key
leaf_of(data, key) == CHOOSE f \in proxy_leaves(data) : f[2] = key

\* C1: a callback bound to leaf tokens is called exactly once by a flush when
\* one or more of its keys changed since the flush before, never more than
\* once by one flush, and by no other operation.
C1_BatchedSingleInvocation ==
    [][ IF last'[1] = "flush"
        THEN \A b \in 1..Len(bindings) : LeafBinding(bindings[b]) =>
                /\ Invocations(calls', b) <= 1
                /\ WatchedLeafKeys(bindings[b]) \cap dirty # {}
                      => Invocations(calls', b) = 1
        ELSE calls' = <<>> ]_vars

\* a flush of two changed keys of a binding on two leaf tokens, both written
\* values other than their defaults, called it once
C1_Witness ==
    /\ last[1] = "flush"
    /\ Len(calls) = 1
    /\ LeafBinding(bindings[calls[1][1]])
    /\ Cardinality(WatchedLeafKeys(bindings[calls[1][1]]) \cap last[3]) = 2
    /\ \A j \in 1..2 :
          calls[1][2][j] # DefaultOf(leaf_of(bindings[calls[1][1]].data,
                                            bindings[calls[1][1]].tokens[j][2]))

\* the argument a token stands for: the decoding of the raw value last put
\* under the leaf's key, or the value-proxy node of the data root
ExpectedArg(r, t) ==
    IF LeafToken(t)
    THEN decode(IF t[2] \in DOMAIN written THEN written[t[2]] ELSE None,
                leaf_of(r.data, t[2])[3])
    ELSE value_node(t)

\* C2: a callback that is called gets one argument per token, in token order:
\* for a leaf token the decoded value last written under its key, for a
\* sub-record token the value-proxy node of the data root at that position.
C2_PositionalDecodedArguments ==
    \A c \in 1..Len(calls) :
        LET r == bindings[calls[c][1]]
            args == calls[c][2]
        IN  /\ Len(args) = Len(r.tokens)
            /\ \A j \in 1..Len(args) :
                  /\ args[j] = ExpectedArg(r, r.tokens[j])
                  /\ ~LeafToken(r.tokens[j]) => args[j] \in proxy_nodes(r.data)

\* a binding on a sub-record token followed by a leaf token was called with
\* the proxy node and the decoded datetime
C2_Witness ==
    /\ last[1] = "flush"
    /\ Len(calls) = 1
    /\ Len(calls[1][2]) = 2
    /\ is_proxy_class(calls[1][2][1])
    /\ calls[1][2][2][1] = "datetime"

\* C3: a flush calls a callback bound to a sub-record token exactly when a
\* leaf under one of its tokens, at any depth, changed since the flush before.
C3_SubRecordBindingFires ==
    [][ last'[1] = "flush" =>
          \A b \in 1..Len(bindings) : SubRecordBinding(bindings[b]) =>
              (Invocations(calls', b) >= 1
                  <=> WatchedLeafKeys(bindings[b]) \cap dirty # {}) ]_vars

\* a callback bound to the sub-record bigger was called by a flush of a change
\* of my_other_data.a alone, two levels below it
C3_Witness ==
    /\ last[1] = "flush"
    /\ last[3] = {"MyRoot__bigger__MyBiggerData__my_other_data__MyData__a"}
    /\ Len(calls) = 1
    /\ \E j \in 1..Len(bindings[calls[1][1]].tokens) :
          bindings[calls[1][1]].tokens[j][2] = "MyRoot__bigger__MyBiggerData"

-----------------------------------------------------------------------------
(* Properties of the proxies *)

DerivedKeys(root) ==
    {dict_keys(get_field_proxy_dict(root))[i] : i \in 1..Len(get_field_proxy_dict(root))}

\* C4: two proxy trees built over one store from different namespaces, or
\* from dataclasses of different names, have no derived key in common.
C4_DisjointKeys ==
    \A i, j \in 1..Len(proxies) :
        (proxies[i][4] # proxies[j][4] \/ proxies[i][3] # proxies[j][3])
            => DerivedKeys(proxies[i]) \cap DerivedKeys(proxies[j]) = {}

\* C5: building a value proxy leaves every key that is present as it is, and
\* puts encode(default) under each absent leaf key that has a default.
C5_ConstructionKeepsPresentKeys ==
    [][ Len(proxies') > Len(proxies) =>
          /\ \A k \in DOMAIN store : k \in DOMAIN store' /\ store'[k] = store[k]
          /\ \A f \in proxy_leaves(proxies'[Len(proxies')]) :
                (f[2] \notin DOMAIN store /\ DefaultOf(f) # MISSING)
                    => /\ f[2] \in DOMAIN store'
                       /\ store'[f[2]] = encode(DefaultOf(f), codec.tz) ]_vars

\* a second proxy of the same dataclass and namespace was built while a leaf
\* held a value other than its default, and the leaf still holds it
C5_Witness ==
    /\ last[1] = "state_proxies"
    /\ Len(proxies) = 2
    /\ proxies[1] = proxies[2]
    /\ \E f \in proxy_leaves(proxies[2]) :
          /\ DefaultOf(f) # MISSING
          /\ store[f[2]] # encode(DefaultOf(f), codec.tz)

\* C6: a leaf read through any proxy instance gives the decoding of the raw
\* value last put under the leaf's key, through whichever instance.
C6_ReadsReflectLastWrite ==
    \A i \in 1..Len(proxies) : \A f \in proxy_leaves(proxies[i]) :
        f[2] \in DOMAIN written
            => ProxyField_get_value(State, f) = decode(written[f[2]], f[3])

\* two instances over the same dataclass and namespace, after a write that
\* left a leaf with a value other than its default
C6_Witness ==
    /\ last[1] = "set_value"
    /\ Len(proxies) = 2
    /\ proxies[1] = proxies[2]
    /\ \E f \in proxy_leaves(proxies[1]) :
          /\ DefaultOf(f) # MISSING
          /\ ProxyField_get_value(State, f) # DefaultOf(f)

\* C7: a leaf write or a from_dataclass call that raises leaves the store as
\* it was before the call.
C7_FailureLeavesStoreUnchanged ==
    [][ (last'[1] \in {"set_value", "from_dataclass"} /\ last'[2] # None)
            => store' = store ]_vars

\* the leaf values of a record, nested records first to last
RECURSIVE record_leaves(_)
RECURSIVE values_leaves(_)
values_leaves(values) ==
    IF values = <<>> THEN <<>>
    ELSE record_leaves(Head(values)) \o values_leaves(Tail(values))
record_leaves(value) ==
    IF value[1] = "obj" THEN values_leaves(value[3]) ELSE <<value>>

\* C10: as_dataclass gives a record of the declared type whose leaves are the
\* decoded stored values, and right after from_dataclass(p, d) it equals d.
C10_AsDataclassReflectsStore ==
    /\ \A i \in 1..Len(proxies) :
          LET r == as_dataclass(State, proxies[i])
              built == proxy_cls(proxies[i]).built
          IN  /\ isinstance(r, proxies[i][3])
              /\ record_leaves(r) =
                    [j \in 1..Len(built) |-> ProxyField_get_value(State, built[j])]
    /\ (last[1] = "from_dataclass" /\ last[2] = None)
          => PyEq(as_dataclass(State, last[3]), last[4])

-----------------------------------------------------------------------------
(* The codec on its own: a value of a declared type is encoded, and the    *)
(* raw value decoded again; or a raw value found in the store is decoded.  *)

SeqsUpTo(S, n) == UNION {[1..k -> S] : k \in 0..n}

EnumType == <<"enum", "MyEnum">>
ScalarTypes == {EnumType, <<"uuid">>, <<"date">>, <<"time">>, <<"datetime">>,
                <<"decimal">>}

Samples(type) ==
    CASE type[1] = "enum" -> {<<"enum", "MyEnum", MyEnumMembers[i]>> : i \in 1..3}
      [] type[1] = "uuid" -> {<<"uuid", 1>>, <<"uuid", 2>>}
      [] type[1] = "date" -> {<<"date", 10>>, <<"date", 11>>}
      [] type[1] = "time" -> {<<"time", 0, Naive>>, <<"time", 12, Tz(1)>>}
      [] type[1] = "datetime" ->
            {<<"datetime", 10, h, tz>> : h \in {0, 12}, tz \in TzSet}
      [] type[1] = "decimal" -> {<<"decimal", 15, 1>>, <<"decimal", 150, 2>>,
                                 <<"decimal", 7, 0>>}

ContainerTypes ==
    {<<"list", t>> : t \in ScalarTypes} \cup
    { <<"list", <<"list", EnumType>> >>,
      <<"dict", EnumType, EnumType>>,
      <<"dict", <<"uuid">>, <<"list", <<"date">> >> >>,
      <<"dict", <<"datetime">>, <<"decimal">> >> }

\* the dicts a program can hold: no key twice
DistinctKeys(pairs) ==
    \A i, j \in 1..Len(pairs) : i # j => ~PyEq(pairs[i][1], pairs[j][1])

RECURSIVE ValuesOf(_)
ValuesOf(type) ==
    IF type[1] = "list"
    THEN {<<"list", items>> : items \in SeqsUpTo(ValuesOf(type[2]), MaxLen)}
    ELSE IF type[1] = "dict"
    THEN {<<"dict", pairs>> :
            pairs \in {p \in SeqsUpTo(ValuesOf(type[2]) \X ValuesOf(type[3]), MaxLen) :
                          DistinctKeys(p)}}
    ELSE Samples(type)

\* (declared type, value of that type)
CodecValues ==
    UNION {{<<t, v>> : v \in ValuesOf(t)} : t \in ScalarTypes \cup ContainerTypes}

\* (declared type, raw value found in the store) that no write of that type made
CodecRaws ==
    { <<<<"date">>, PyInt(5)>>, <<<<"date">>, None>>, <<<<"date">>, PyStr("abc")>>,
      <<<<"datetime">>, PyInt(5)>>, <<<<"time">>, None>>,
      <<<<"int">>, None>>, <<<<"int">>, PyStr("abc")>>, <<<<"float">>, None>>,
      <<EnumType, PyInt(9)>>, <<EnumType, None>>,
      <<<<"uuid">>, PyInt(5)>>, <<<<"uuid">>, None>>,
      <<<<"decimal">>, PyStr("abc")>>, <<<<"decimal">>, None>>,
      <<<<"list", EnumType>>, None>>, <<<<"list", EnumType>>, PyInt(1)>> }

CodecInit ==
    /\ store = NoState
    /\ dirty = {}
    /\ proxies = <<>>
    /\ written = NoState
    /\ bindings = <<>>
    /\ calls = <<>>
    /\ last = <<"init", None, None, None>>
    /\ \E tz \in LocalOffsets :
          \/ \E c \in CodecValues :
                codec = [phase |-> "value", tz |-> tz, type |-> c[1], obj |-> c[2],
                         raw |-> None, out |-> None]
          \/ \E c \in CodecRaws :
                codec = [phase |-> "raw", tz |-> tz, type |-> c[1], obj |-> MISSING,
                         raw |-> c[2], out |-> None]

\* state[key] = encoder.encode(value)
CodecEncode ==
    /\ codec.phase = "value"
    /\ codec' = [codec EXCEPT !.phase = "raw", !.raw = encode(codec.obj, codec.tz)]
    /\ UNCHANGED <<store, dirty, proxies, written, bindings, calls, last>>

\* encoder.decode(state[key], field_type)
CodecDecode ==
    /\ codec.phase = "raw"
    /\ codec' = [codec EXCEPT !.phase = "done", !.out = decode(codec.raw, codec.type)]
    /\ UNCHANGED <<store, dirty, proxies, written, bindings, calls, last>>

CodecNext == CodecEncode \/ CodecDecode

CodecSpec == CodecInit /\ [][CodecNext]_vars

-----------------------------------------------------------------------------
\* C8: when the composite codec decodes a raw value that is no container and
\* every unit codec of its chain declines by raising, the decode raises to the
\* caller; it does not return the raw value.
UnitsDecline ==
    \A i \in 1..Len(default_encoder) :
        IsRaise(unit_decode(default_encoder[i], codec.raw, codec.type))

C8_DecodeFailureRaises ==
    (codec.phase = "done" /\ codec.raw[1] \notin {"list", "dict"} /\ UnitsDecline)
        => IsRaise(codec.out)

\* C9: with the default codec chain decode(encode(v), T) == v for every value
\* v of a supported declared type T, containers of them included.
C9_RoundTrip ==
    (codec.phase = "done" /\ codec.obj # MISSING) => PyEq(codec.out, codec.obj)

-----------------------------------------------------------------------------
(* Properties of the proxy classes *)

\* TypedState.name of the TypedState whose data is this value-proxy root
name_root(data) == state_names_proxy(data[3], data[4]).instance

\* the value proxy and the name proxy agree at every attribute: the leaf of
\* the name proxy reads as the key the leaf of the value proxy works on, a
\* nested proxy has the state id of the nested value proxy and agrees below
RECURSIVE Mirrors(_, _)
Mirrors(data, name) ==
    /\ get_state_id(name, "") = get_state_id(data, "")
    /\ Len(proxy_cls(name).namespace) = Len(proxy_cls(data).namespace)
    /\ \A k \in 1..Len(proxy_cls(data).namespace) :
          /\ proxy_cls(name).namespace[k][1] = proxy_cls(data).namespace[k][1]
          /\ IF is_proxy_class(proxy_cls(data).namespace[k][2])
             THEN /\ is_proxy_class(proxy_cls(name).namespace[k][2])
                  /\ Mirrors(proxy_cls(data).namespace[k][2],
                             proxy_cls(name).namespace[k][2])
             ELSE descriptor_get(State, proxy_cls(name).namespace[k][2])
                     = PyStr(proxy_cls(data).namespace[k][2][2])

\* every token a name proxy gives: itself, and what its attributes give
RECURSIVE name_tokens(_)
name_tokens(name) ==
    {name} \cup
    UNION { IF is_proxy_class(getattr(State, name, proxy_cls(name).namespace[k][1]))
            THEN name_tokens(getattr(State, name, proxy_cls(name).namespace[k][1]))
            ELSE {getattr(State, name, proxy_cls(name).namespace[k][1])} :
            k \in 1..Len(proxy_cls(name).namespace) }

\* C11: the name proxy of a typed state mirrors its value proxy: a leaf of
\* the name proxy is the store key of the value proxy's leaf at that place, a
\* sub-record has the synthetic key of the value proxy's sub-record, and the
\* value key of every name token is a key of the data root's field index.
C11_NameProxyMirrorsValueProxy ==
    \A i \in 1..Len(proxies) :
        /\ Mirrors(proxies[i], name_root(proxies[i]))
        /\ \A t \in name_tokens(name_root(proxies[i])) :
              key_index(get_field_proxy_dict(proxies[i]),
                        get_value_state_keys(<<t>>)[1]) # 0

\* a typed state over the nested record was built: its name proxy gives four
\* leaf tokens and three sub-record tokens
C11_Witness ==
    /\ last[1] = "state_proxies"
    /\ last[3][3] = "MyRoot"
    /\ Cardinality({t \in name_tokens(name_root(last[3])) : is_proxy_class(t)}) = 3
    /\ Cardinality({t \in name_tokens(name_root(last[3])) : ~is_proxy_class(t)}) = 4

\* the leaf fields of a dataclass, those of its nested dataclasses included
RECURSIVE CountLeaves(_, _)
CountLeaves(cls, i) ==
    IF i > Len(fields(cls)) THEN 0
    ELSE (IF is_dataclass(fields(cls)[i].type)
          THEN CountLeaves(fields(cls)[i].type[2], 1) ELSE 1)
         + CountLeaves(cls, i + 1)

\* the dataclasses of the tree of a dataclass, itself included
RECURSIVE CountRecords(_, _)
CountRecords(cls, i) ==
    IF i > Len(fields(cls)) THEN 1
    ELSE (IF is_dataclass(fields(cls)[i].type)
          THEN CountRecords(fields(cls)[i].type[2], 1) ELSE 0)
         + CountRecords(cls, i + 1)

\* the nodes reached from a proxy through its attributes, each under its
\* key: a leaf under its state id, a proxy under its own state id
RECURSIVE subtree_entries(_)
subtree_entries(instance) ==
    { <<get_state_id(instance, ""), instance>> } \cup
    UNION { IF is_proxy_class(proxy_cls(instance).namespace[k][2])
            THEN subtree_entries(proxy_cls(instance).namespace[k][2])
            ELSE { <<proxy_cls(instance).namespace[k][2][2],
                     proxy_cls(instance).namespace[k][2]>> } :
            k \in 1..Len(proxy_cls(instance).namespace) }

dict_entries(d) == {d[k] : k \in 1..Len(d)}

\* C12: the field index of a root proxy has one entry for each leaf field of
\* the tree and one for each record of the tree, the root included; the
\* field index of every proxy of the tree holds exactly the entries of its
\* own subtree: its leaves, the proxies nested in it and itself.
C12_FieldIndexIsSubtree ==
    \A i \in 1..Len(proxies) :
        \A root \in {proxies[i], name_root(proxies[i])} :
            /\ Len(get_field_proxy_dict(root)) =
                  CountLeaves(root[3], 1) + CountRecords(root[3], 1)
            /\ \A e \in subtree_entries(root) : is_proxy_class(e[2]) =>
                  /\ dict_entries(get_field_proxy_dict(e[2])) = subtree_entries(e[2])
                  /\ Len(get_field_proxy_dict(e[2])) =
                        Cardinality(subtree_entries(e[2]))

\* the nested record was built: the root's index has 4 + 3 entries, the
\* index of bigger 5 and the index of my_other_data 3
C12_Witness ==
    /\ last[1] = "state_proxies"
    /\ last[3][3] = "MyRoot"
    /\ Len(get_field_proxy_dict(last[3])) = 7
    /\ Len(get_field_proxy_dict(class_attr(last[3], "bigger"))) = 5
    /\ Len(get_field_proxy_dict(
              class_attr(class_attr(last[3], "bigger"), "my_other_data"))) = 3

-----------------------------------------------------------------------------
(* Properties of the keys a binding reacts to *)

\* the keys of the leaves under a name proxy, in declaration order, those of
\* nested proxies in the place of the field that holds them
RECURSIVE subtree_leaf_keys(_, _)
subtree_leaf_keys(name, k) ==
    IF k > Len(proxy_cls(name).namespace) THEN <<>>
    ELSE (IF is_proxy_class(proxy_cls(name).namespace[k][2])
          THEN subtree_leaf_keys(proxy_cls(name).namespace[k][2], 1)
          ELSE <<proxy_cls(name).namespace[k][2][2]>>)
         \o subtree_leaf_keys(name, k + 1)

\* for each token its key, or the leaf keys under it and then its own key
RECURSIVE leaves_then_own_key(_)
leaves_then_own_key(tokens) ==
    IF tokens = <<>> THEN <<>>
    ELSE (IF is_proxy_class(Head(tokens))
          THEN subtree_leaf_keys(Head(tokens), 1) \o <<get_state_id(Head(tokens), "")>>
          ELSE <<Head(tokens)[2]>>)
         \o leaves_then_own_key(Tail(tokens))

\* the keys under a name proxy, in declaration order: the key of a leaf, for
\* a nested proxy its keys in the same way, and the proxy's own key last
RECURSIVE subtree_keys(_, _)
subtree_keys(name, k) ==
    IF k > Len(proxy_cls(name).namespace) THEN <<get_state_id(name, "")>>
    ELSE (IF is_proxy_class(proxy_cls(name).namespace[k][2])
          THEN subtree_keys(proxy_cls(name).namespace[k][2], 1)
          ELSE <<proxy_cls(name).namespace[k][2][2]>>)
         \o subtree_keys(name, k + 1)

RECURSIVE expected_reactive_keys(_)
expected_reactive_keys(tokens) ==
    IF tokens = <<>> THEN <<>>
    ELSE (IF is_proxy_class(Head(tokens))
          THEN subtree_keys(Head(tokens), 1)
          ELSE <<Head(tokens)[2]>>)
         \o expected_reactive_keys(Tail(tokens))

\* C13 as stated: the keys a binding reacts to are, token after token, the
\* key of a leaf token, and for a sub-record token the keys of all the leaves
\* under it followed by the sub-record's own synthetic key, and nothing else.
C13_LeavesThenOwnKey ==
    \A b \in 1..Len(bindings) :
        bindings[b].keys = leaves_then_own_key(bindings[b].tokens)

\* C13 amended: the keys a binding reacts to are, token after token, the key
\* of a leaf token, and for a sub-record token the keys of its field index in
\* index order: field after field the key of a leaf or, for a nested
\* sub-record, that sub-record's keys in the same way, its synthetic key
\* closing them, and last the token's own synthetic key.
C13_IndexOrderKeys ==
    \A b \in 1..Len(bindings) :
        bindings[b].keys = expected_reactive_keys(bindings[b].tokens)

\* a binding on [name.bigger, name.when]: six keys, the synthetic key of
\* my_other_data third, between the leaves b and c
C13_Witness ==
    /\ last[1] = "bind_change"
    /\ Len(bindings) = 1
    /\ Len(bindings[1].tokens) = 2
    /\ is_proxy_class(bindings[1].tokens[1])
    /\ bindings[1].tokens[1][3] = "MyBiggerData"
    /\ Len(bindings[1].keys) = 6
    /\ bindings[1].keys[3] = "MyRoot__bigger__MyBiggerData__my_other_data__MyData"
    /\ bindings[1].keys[5] = "MyRoot__bigger__MyBiggerData"

-----------------------------------------------------------------------------
(* Properties of the derived keys *)

\* the key a field of a proxy class was built with: the state id of a leaf,
\* for a nested proxy the prefix its class was built with
field_key(attr) == IF is_proxy_class(attr) THEN attr[4] ELSE attr[2]

\* the proxies of the tree under a root proxy, the root included
tree_proxies(root) == {e[2] : e \in {x \in subtree_entries(root) : is_proxy_class(x[2])}}

PlainDerivedKey(prefix, type_name, field_name) ==
    prefix \o "__" \o type_name \o "__" \o field_name

derived_key(prefix, type_name, field_name) ==
    IF prefix = "" THEN type_name \o "__" \o field_name
    ELSE prefix \o "__" \o type_name \o "__" \o field_name

\* C14 as stated: the key of every field, at every depth and for every
\* namespace, the empty one included, is prefix + "__" + TypeName + "__" +
\* fieldName, the prefix of a nested record's fields being the key of the
\* field that holds the record.
C14_PlainDerivedKeys ==
    \A i \in 1..Len(proxies) : \A node \in tree_proxies(proxies[i]) :
        \A k \in 1..Len(fields(node[3])) :
            /\ proxy_cls(node).namespace[k][1] = fields(node[3])[k].name
            /\ field_key(proxy_cls(node).namespace[k][2]) =
                  PlainDerivedKey(node[4], node[3], fields(node[3])[k].name)

\* C14 amended: the key of every field, at every depth, is prefix + "__" +
\* TypeName + "__" + fieldName when the prefix is not empty and TypeName +
\* "__" + fieldName when it is empty, the prefix of a nested record's fields
\* being the key of the field that holds the record.
C14_DerivedKeys ==
    \A i \in 1..Len(proxies) : \A node \in tree_proxies(proxies[i]) :
        \A k \in 1..Len(fields(node[3])) :
            /\ proxy_cls(node).namespace[k][1] = fields(node[3])[k].name
            /\ field_key(proxy_cls(node).namespace[k][2]) =
                  derived_key(node[4], node[3], fields(node[3])[k].name)

\* a typed state with the empty namespace and one with a namespace were
\* built, and the defaults of the nested leaves are stored under their keys
C14_Witness ==
    /\ Len(proxies) = 2
    /\ proxies[1][4] = ""
    /\ proxies[2][4] # ""
    /\ "MyRoot__bigger__MyBiggerData__c" \in DOMAIN store
    /\ "MyRoot__bigger__MyBiggerData__my_other_data__MyData__a" \in DOMAIN store

=============================================================================
